---- MODULE Spec2Model ----
\* PowerPointLocalDataSet (kedro_tutorial/io/powerpoint/powerpoint_local.py):
\* an adapter that saves a tabular dataset into a table on a slide of a fixed
\* template presentation and loads it back through a comma-delimited text.
EXTENDS Integers, Sequences, FiniteSets, TLC

\* ------------------------------------------------------------------ text
\* A text is a sequence of one-character strings.  The empty text stands for
\* the empty / missing (NaN) value of a cell.

COMMA == ","
QUOTE == "\""
LF == "\n"
NaN == <<>>

\* str.join: the pieces with sep between them.
RECURSIVE Join(_, _)
Join(pieces, sep) ==
    IF pieces = <<>> THEN <<>>
    ELSE IF Len(pieces) = 1 THEN pieces[1]
    ELSE pieces[1] \o sep \o Join(Tail(pieces), sep)

\* str.split(","): the pieces between the separators; one piece for "".
RECURSIVE SplitFrom(_, _, _)
SplitFrom(s, sep, piece) ==
    IF s = <<>> THEN <<piece>>
    ELSE IF Head(s) = sep THEN <<piece>> \o SplitFrom(Tail(s), sep, <<>>)
    ELSE SplitFrom(Tail(s), sep, Append(piece, Head(s)))

Split(s, sep) == SplitFrom(s, sep, <<>>)

\* str.splitlines(): the lines without their line boundary; no final empty
\* line.
RECURSIVE SplitLinesFrom(_, _)
SplitLinesFrom(s, piece) ==
    IF s = <<>> THEN (IF piece = <<>> THEN <<>> ELSE <<piece>>)
    ELSE IF Head(s) = LF THEN <<piece>> \o SplitLinesFrom(Tail(s), <<>>)
    ELSE SplitLinesFrom(Tail(s), Append(piece, Head(s)))

SplitLines(s) == SplitLinesFrom(s, <<>>)

\* zip(a, b): pairs up to the shorter length.
Min(a, b) == IF a <= b THEN a ELSE b

\* ------------------------------------------------- DataFrame.to_csv
\* A dataset is [cols, index, values]: column names, index values and one
\* sequence of cell values per row.

Shape(data) == <<Len(data.index), Len(data.cols)>>

NoData == [cols |-> <<>>, index |-> <<>>, values |-> <<>>]

RECURSIVE DoubleQuotes(_)
DoubleQuotes(f) ==
    IF f = <<>> THEN <<>>
    ELSE IF Head(f) = QUOTE THEN <<QUOTE, QUOTE>> \o DoubleQuotes(Tail(f))
    ELSE <<Head(f)>> \o DoubleQuotes(Tail(f))

\* csv.QUOTE_MINIMAL: a field holding the delimiter, the quote character or a
\* line terminator is quoted, its quotes doubled.
QuoteField(f) ==
    IF \E i \in 1..Len(f) : f[i] \in {COMMA, QUOTE, LF}
    THEN <<QUOTE>> \o DoubleQuotes(f) \o <<QUOTE>>
    ELSE f

\* One record: a lone empty field is written as "" (csv.writer).
CsvRecord(fields) ==
    IF fields = <<NaN>> THEN <<QUOTE, QUOTE, LF>>
    ELSE Join([i \in 1..Len(fields) |-> QuoteField(fields[i])], <<COMMA>>)
         \o <<LF>>

RECURSIVE Concat(_)
Concat(texts) ==
    IF texts = <<>> THEN <<>> ELSE Head(texts) \o Concat(Tail(texts))

\* data.to_csv(index=index): the header record (the unnamed index gives an
\* empty first field), then one record per row.
ToCsv(data, index) ==
    LET lead(x) == IF index THEN <<x>> ELSE <<>>
        header == CsvRecord(lead(NaN) \o data.cols)
        body == [i \in 1..Len(data.index) |->
                    CsvRecord(lead(data.index[i]) \o data.values[i])]
    IN header \o Concat(body)

\* -------------------------------------------------- pandas.read_csv
\* The tokenizer's states (pandas/_libs/src/parser/tokenizer.c, as the csv
\* module's): a quote opens a quoted field only at the start of a field; in a
\* quoted field a doubled quote is one quote, a delimiter and a line
\* terminator are data; the input ending inside a quoted field is an error.
RECURSIVE Tokenize(_, _, _, _, _)
Tokenize(s, state, field, row, rows) ==
    IF s = <<>> THEN
        IF state = "IN_QUOTED_FIELD" THEN [err |-> "ParserError", rows |-> rows]
        ELSE IF row = <<>> /\ state = "START_FIELD"
             THEN [err |-> "None", rows |-> rows]
             ELSE [err |-> "None", rows |-> Append(rows, Append(row, field))]
    ELSE
    LET c == Head(s)
        rest == Tail(s)
    IN
    CASE state = "START_FIELD" ->
            IF c = LF THEN
                \* skip_blank_lines
                IF row = <<>> THEN Tokenize(rest, "START_FIELD", <<>>, <<>>, rows)
                ELSE Tokenize(rest, "START_FIELD", <<>>, <<>>,
                              Append(rows, Append(row, field)))
            ELSE IF c = QUOTE THEN Tokenize(rest, "IN_QUOTED_FIELD", field, row, rows)
            ELSE IF c = COMMA
                 THEN Tokenize(rest, "START_FIELD", <<>>, Append(row, field), rows)
            ELSE Tokenize(rest, "IN_FIELD", Append(field, c), row, rows)
      [] state = "IN_FIELD" ->
            IF c = LF THEN Tokenize(rest, "START_FIELD", <<>>, <<>>,
                                    Append(rows, Append(row, field)))
            ELSE IF c = COMMA
                 THEN Tokenize(rest, "START_FIELD", <<>>, Append(row, field), rows)
            ELSE Tokenize(rest, "IN_FIELD", Append(field, c), row, rows)
      [] state = "IN_QUOTED_FIELD" ->
            IF c = QUOTE
            THEN Tokenize(rest, "QUOTE_IN_QUOTED_FIELD", field, row, rows)
            ELSE Tokenize(rest, "IN_QUOTED_FIELD", Append(field, c), row, rows)
      [] OTHER ->
            \* QUOTE_IN_QUOTED_FIELD
            IF c = QUOTE
            THEN Tokenize(rest, "IN_QUOTED_FIELD", Append(field, c), row, rows)
            ELSE IF c = COMMA
                 THEN Tokenize(rest, "START_FIELD", <<>>, Append(row, field), rows)
            ELSE IF c = LF THEN Tokenize(rest, "START_FIELD", <<>>, <<>>,
                                         Append(rows, Append(row, field)))
            ELSE Tokenize(rest, "IN_FIELD", Append(field, c), row, rows)

\* The name read_csv gives the header field at 0-based position k.
Digit(k) == CASE k = 0 -> "0" [] k = 1 -> "1" [] k = 2 -> "2" [] k = 3 -> "3"
              [] k = 4 -> "4" [] OTHER -> "9"

ColumnName(field, k) == IF field = NaN THEN <<"Unnamed: ", Digit(k)>> ELSE field

\* s without its element at position p.
Without(s, p) == [i \in 1..(Len(s) - 1) |-> IF i < p THEN s[i] ELSE s[i + 1]]

\* A row padded with missing values up to n fields.
Pad(row, n) == [i \in 1..n |-> IF i <= Len(row) THEN row[i] ELSE NaN]

\* pandas.read_csv(buffer, index_col=index_col).  The first record is the
\* header.  The tokenizer pads a record shorter than the one before it with
\* missing values and refuses a data record longer than the one before it,
\* but for the first data record, which may be longer than the header: its
\* extra leading field is then the index (an implicit index), and more than
\* one extra field cannot be made an index.  Otherwise the field at index_col
\* is the index.
ReadCsv(buffer, index_col) ==
    LET tok == Tokenize(buffer, "START_FIELD", <<>>, <<>>, <<>>)
    IN
    IF tok.err # "None" THEN [err |-> tok.err, value |-> NoData]
    ELSE IF tok.rows = <<>> THEN [err |-> "EmptyDataError", value |-> NoData]
    ELSE
    LET header == tok.rows[1]
        n == Len(header)
        body == Tail(tok.rows)
        width == IF body # <<>> /\ Len(body[1]) > n THEN Len(body[1]) ELSE n
        leading == width - n
        names == [k \in 1..n |-> ColumnName(header[k], k - 1)]
        p == index_col + 1
    IN
    IF \E i \in 2..Len(body) : Len(body[i]) > width
    THEN [err |-> "ParserError", value |-> NoData]
    ELSE IF leading > 1 THEN [err |-> "ParserError", value |-> NoData]
    ELSE IF leading = 1
    THEN [err |-> "None",
          value |-> [cols |-> names,
                     index |-> [i \in 1..Len(body) |-> Pad(body[i], width)[1]],
                     values |-> [i \in 1..Len(body) |-> Tail(Pad(body[i], width))]]]
    ELSE IF p > n THEN [err |-> "IndexError", value |-> NoData]
    ELSE [err |-> "None",
          value |->
            [cols |-> Without(names, p),
             index |-> [i \in 1..Len(body) |-> Pad(body[i], n)[p]],
             values |-> [i \in 1..Len(body) |-> Without(Pad(body[i], n), p)]]]


\* ------------------------------------------------------------ documents
\* A presentation is [slides, rels]: the slide id list in order and the
\* relationships of the presentation part (one per slide, named by slide id).
\* A slide is [id, shapes]; a shape is [kind, text, rows], rows being the
\* table's rows of cells when kind = "table".  A cell is
\* [runs, fill, rgb, margins], a run is [text, font].

NoStyle == <<0 - 1, 0 - 1>>

\* A cell of a table made by add_table: one empty paragraph, nothing set.
NewCell == [runs |-> <<>>, fill |-> "none", rgb |-> NoStyle, margins |-> NoStyle]

\* cell.text: the text of the runs of the cell's paragraph.
CellText(cell) == Concat([k \in 1..Len(cell.runs) |-> cell.runs[k].text])

NoPrs == [slides |-> <<>>, rels |-> {}]

Picture == [kind |-> "picture", text |-> <<>>, rows |-> <<>>]
TitleShape == [kind |-> "title", text |-> <<"T", "a", "b", "l", "e">>, rows |-> <<>>]
TableShape(rows) == [kind |-> "table", text |-> <<>>, rows |-> rows]

\* shape.has_table
HasTable(shape) == shape.kind = "table"

\* _get_table: the first shape, in the slide's order, that has a table;
\* at is its position, 0 with the DataSetError.
RECURSIVE ScanShapes(_, _)
ScanShapes(shapes, k) ==
    IF k > Len(shapes) THEN [err |-> "DataSetError", at |-> 0]
    ELSE IF HasTable(shapes[k]) THEN [err |-> "None", at |-> k]
    ELSE ScanShapes(shapes, k + 1)

\* A scan that returns the last table-bearing shape instead of the first.
RECURSIVE ScanShapesBack(_, _)
ScanShapesBack(shapes, k) ==
    IF k < 1 THEN [err |-> "DataSetError", at |-> 0]
    ELSE IF HasTable(shapes[k]) THEN [err |-> "None", at |-> k]
    ELSE ScanShapesBack(shapes, k - 1)

GetTableLast(slide) == ScanShapesBack(slide.shapes, Len(slide.shapes))

GetTable(slide) == ScanShapes(slide.shapes, 1)

\* ------------------------------------------------------- _format_cells
\* One cell formatted like the exemplar: its fill when background or solid
\* (another fill type is left alone), its margins, a new run holding the
\* value, the font of the exemplar's first run.
FormatCell(cell, value, like) ==
    [runs |-> Append(cell.runs, [text |-> value, font |-> like.runs[1].font]),
     fill |-> IF like.fill \in {"background", "solid"} THEN like.fill
              ELSE cell.fill,
     rgb |-> IF like.fill = "solid" THEN like.rgb ELSE cell.rgb,
     margins |-> like.margins]

\* The loop over zip(row.cells, values): the pairs stop with the shorter of
\* the two; an exemplar without a run fails at runs[0] on the first pair.
FormatPairs(row, values, like) ==
    LET n == Min(Len(row), Len(values))
    IN IF n >= 1 /\ like.runs = <<>> THEN [err |-> "IndexError", row |-> row]
       ELSE [err |-> "None",
             row |-> [k \in 1..Len(row) |->
                         IF k <= n THEN FormatCell(row[k], values[k], like)
                         ELSE row[k]]]

\* A formatter that refuses a line with more or fewer values than cells.
FormatCellsStrict(row, line, like) ==
    IF Len(row) # Len(Split(line, COMMA))
    THEN [err |-> "ValueError", row |-> row]
    ELSE FormatPairs(row, Split(line, COMMA), like)

\* _format_cells(row, line, like)
FormatCells(row, line, like) == FormatPairs(row, Split(line, COMMA), like)

\* ------------------------------------------------------- _get_template
\* The position (0-based) of the slide that is kept.
KeepIdx == 40

\* The bundled template file: nslides slides, the one at KeepIdx holding
\* shapes; the other slides hold a picture.
OpenTemplate(t) ==
    [slides |-> [i \in 1..t.nslides |->
                    [id |-> i - 1,
                     shapes |-> IF i - 1 = KeepIdx THEN t.shapes
                                ELSE <<Picture>>]],
     rels |-> 0..(t.nslides - 1)]

\* list(enumerate(prs.slides._sldIdLst))
Enumerate(prs) ==
    [k \in 1..Len(prs.slides) |-> [i |-> k - 1, slide_id |-> prs.slides[k].id]]

\* del slide_id_list[40]
DelKept(list) ==
    IF Len(list) <= KeepIdx THEN [err |-> "IndexError", list |-> list]
    ELSE [err |-> "None", list |-> Without(list, KeepIdx + 1)]

Reverse(s) == [k \in 1..Len(s) |-> s[Len(s) + 1 - k]]

\* The loop without reversed().
IterForward(list) == list

\* reversed(slide_id_list): the order in which the loop takes the entries.
IterOrder(list) == Reverse(list)

\* One iteration: prs.part.drop_rel(slide_id.rId); del prs.slides._sldIdLst[i].
\* gone is the id of the slide that index i named when it was deleted.
PruneStep(prs, entry) ==
    IF entry.i + 1 > Len(prs.slides)
    THEN [err |-> "IndexError", prs |-> prs, gone |-> 0 - 1]
    ELSE [err |-> "None",
          prs |-> [slides |-> Without(prs.slides, entry.i + 1),
                   rels |-> prs.rels \ {entry.slide_id}],
          gone |-> prs.slides[entry.i + 1].id]

RECURSIVE PruneAll(_, _)
PruneAll(prs, todo) ==
    IF todo = <<>> THEN [err |-> "None", prs |-> prs]
    ELSE LET r == PruneStep(prs, Head(todo))
         IN IF r.err # "None" THEN [err |-> r.err, prs |-> prs]
            ELSE PruneAll(r.prs, Tail(todo))

\* _get_template(): the template with every slide but the one at KeepIdx
\* deleted.
GetTemplate(t) ==
    LET prs == OpenTemplate(t)
        d == DelKept(Enumerate(prs))
    IN IF d.err # "None" THEN [err |-> d.err, prs |-> prs]
       ELSE PruneAll(prs, IterOrder(d.list))


\* --------------------------------------------------------- construction
default_load_args == [slide_name |-> 0, index_col |-> 0]
default_save_args == [title |-> "None"]

\* {**defaults, **args}
Merge(defaults, args) ==
    [k \in DOMAIN defaults \cup DOMAIN args |->
        IF k \in DOMAIN args THEN args[k] ELSE defaults[k]]

\* __init__: the defaults when no mapping is given, else the defaults
\* overridden by the mapping's own entries.
ResolveArgs(defaults, given) ==
    IF given.none THEN defaults ELSE Merge(defaults, given.args)

\* dict.pop(key) on a mapping: what is left.
Pop(args, key) == [k \in DOMAIN args \ {key} |-> args[k]]

\* _describe()
Describe(fp, la, sa) == [filepath |-> fp, load_args |-> la, save_args |-> sa]

\* ------------------------------------------------------------- bounds
MaxRows == 2
MaxCols == 2
MaxSpecial == 2
MaxSlides == 43

\* --------------------------------------------------------------- inputs
None == [none |-> TRUE, args |-> <<>>]
Given(args) == [none |-> FALSE, args |-> args]

LoadArgsInputs ==
    {None, Given([slide_name |-> 1]), Given([index_col |-> 1]),
     Given([slide_name |-> 0, index_col |-> 0])}

SaveArgsInputs ==
    {None, Given([title |-> "Hello, World!"]), Given([index |-> FALSE]),
     Given([title |-> "None", index |-> TRUE])}

\* The template's table: nrows rows of two cells, styled by position.  The
\* first cell of the header row contains no runs (line 217); runless names
\* further rows whose cells have none; the last band's fill is lastfill.
ExemplarCell(i, j, hasrun, fill) ==
    [runs |-> IF hasrun THEN <<[text |-> <<"a">>, font |-> <<i, j>>]>> ELSE <<>>,
     fill |-> fill, rgb |-> <<i, j>>, margins |-> <<i, j>>]

ExemplarTable(nrows, runless, lastfill) ==
    TableShape([i \in 1..nrows |-> [j \in 1..2 |->
        ExemplarCell(i - 1, j - 1,
                     ~(i = 1 /\ j = 1) /\ i \notin runless,
                     CASE i = 1 -> "solid" [] i = 2 -> "background"
                       [] OTHER -> lastfill)]])

GoodTable == ExemplarTable(3, {}, "solid")

Templates ==
    {[nslides |-> KeepIdx + 1, shapes |-> <<TitleShape, Picture, GoodTable>>],
     [nslides |-> KeepIdx + 2, shapes |-> <<Picture, GoodTable>>],
     [nslides |-> KeepIdx + 1, shapes |-> <<TitleShape, Picture>>],
     [nslides |-> KeepIdx + 1,
      shapes |-> <<TitleShape, ExemplarTable(2, {}, "solid")>>],
     [nslides |-> KeepIdx + 1,
      shapes |-> <<TitleShape, ExemplarTable(3, {3}, "solid")>>],
     [nslides |-> KeepIdx + 1,
      shapes |-> <<TitleShape, ExemplarTable(4, {}, "gradient"), Picture,
                   ExemplarTable(3, {2}, "solid")>>],
     [nslides |-> KeepIdx, shapes |-> <<TitleShape, Picture, GoodTable>>]}

GoodTemplate ==
    [nslides |-> KeepIdx + 1, shapes |-> <<TitleShape, Picture, GoodTable>>]

\* The target location before the first call: no file, or a presentation
\* whose first slide has shapes but no table and whose second has a table.
Absent == [exists |-> FALSE, doc |-> NoPrs]

TextCell(t) == [runs |-> <<[text |-> t, font |-> NoStyle]>>, fill |-> "none",
                rgb |-> NoStyle, margins |-> NoStyle]

Existing ==
    [exists |-> TRUE,
     doc |-> [slides |->
                <<[id |-> 0, shapes |-> <<TitleShape, Picture>>],
                  [id |-> 1,
                   shapes |-> <<Picture,
                                TableShape(<<<<TextCell(NaN), TextCell(<<"x">>)>>,
                                             <<TextCell(<<"0">>), TextCell(<<"a">>)>>>>)>>]>>,
              rels |-> {0, 1}]]

\* The datasets a caller passes: r rows, c columns named c0, c1, ..., the
\* default index 0, 1, ..., the values "a" in the odd columns and a quote in
\* the even ones, but at most MaxSpecial values, which are missing, a comma or
\* a line feed.
Specials == {NaN, <<COMMA>>, <<LF>>}

BaseValue(j) == IF j % 2 = 1 THEN <<"a">> ELSE <<QUOTE>>

MkData(r, c, f) ==
    [cols |-> [j \in 1..c |-> <<"c", Digit(j - 1)>>],
     index |-> [i \in 1..r |-> <<Digit(i - 1)>>],
     values |-> [i \in 1..r |-> [j \in 1..c |->
                    IF <<i, j>> \in DOMAIN f THEN f[<<i, j>>] ELSE BaseValue(j)]]]

Overrides(r, c) ==
    UNION {[S -> Specials] :
             S \in {T \in SUBSET ((1..r) \X (1..c)) : Cardinality(T) <= MaxSpecial}}

PlainDataSets == {MkData(r, c, <<>>) : r \in 0..MaxRows, c \in 1..MaxCols}

DataSets ==
    UNION {{MkData(rc[1], rc[2], f) : f \in Overrides(rc[1], rc[2])} :
             rc \in (0..MaxRows) \X (1..MaxCols)}


\* ---------------------------------------------------------------- state
VARIABLES
    filepath,       \* self._filepath
    load_args,      \* self._load_args
    save_args,      \* self._save_args
    config0,        \* what _describe() returned right after construction
    template,       \* the bundled template file
    data,           \* the dataset the caller passes to save
    fs,             \* the file at the target location
    saved,          \* whether fs was written by a save of this adapter
    pc,             \* the statement the running call is at, "idle" between calls
    prs,            \* _save / _get_template: the presentation in memory
    exemplars,      \* _save: header_row, first_data_row, second_data_row
    table_at,       \* _save: the position of old_table, then new_table, in the slide
    lines,          \* _save: data.to_csv(...).splitlines()
    rowi,           \* _save: how many (row, line) pairs rows_and_lines has given
    result,         \* what the last call returned or raised
    slide_id_list,  \* _get_template: the entries the loop has still to take
    deleted         \* _get_template: the deletions done, in order

config == <<filepath, load_args, save_args, config0>>
env == <<template, data>>
locals == <<prs, exemplars, table_at, lines, rowi>>
tpl == <<slide_id_list, deleted>>
vars == <<config, env, fs, saved, pc, locals, result, tpl>>

NoConfig == [filepath |-> "", load_args |-> <<>>, save_args |-> <<>>]

Res(op, err) ==
    [op |-> op, err |-> err, value |-> NoData, index_col |-> 0 - 1,
     config |-> NoConfig]

Target == "test.pptx"

DefaultOptions == load_args = default_load_args /\ save_args = default_save_args

\* After construction.  Every option mapping and template is tried with the
\* plain datasets; the datasets with special values are tried with the default
\* options on the good template.
Init ==
    /\ filepath = Target
    /\ \E la \in LoadArgsInputs : load_args = ResolveArgs(default_load_args, la)
    /\ \E sa \in SaveArgsInputs : save_args = ResolveArgs(default_save_args, sa)
    /\ config0 = Describe(filepath, load_args, save_args)
    /\ template \in Templates
    /\ data \in DataSets
    /\ fs \in {Absent, Existing}
    /\ \/ data \in PlainDataSets
       \/ DefaultOptions /\ template = GoodTemplate /\ fs = Absent
    /\ saved = FALSE
    /\ pc = "idle"
    /\ prs = NoPrs
    /\ exemplars = <<>>
    /\ table_at = 0
    /\ lines = <<>>
    /\ rowi = 0
    /\ result = Res("none", "None")
    /\ slide_id_list = <<>>
    /\ deleted = <<>>

\* ---------------------------------------------------------------- _save
\* A statement order that persists right after the table swap.
SuccEarlySave(p) ==
    CASE p = "assert" -> "get_template"
      [] p = "get_template" -> "unpack_slide"
      [] p = "unpack_slide" -> "title"
      [] p = "title" -> "get_table"
      [] p = "get_table" -> "unpack_rows"
      [] p = "unpack_rows" -> "add_table"
      [] p = "add_table" -> "persist"
      [] p = "to_csv" -> "format_header"
      [] p = "format_header" -> "format_bands"
      [] p = "format_bands" -> "persist"
      [] OTHER -> "idle"

\* The statements of _save in their order: the statement after p.
Succ(p) ==
    CASE p = "assert" -> "get_template"
      [] p = "get_template" -> "unpack_slide"
      [] p = "unpack_slide" -> "title"
      [] p = "title" -> "get_table"
      [] p = "get_table" -> "unpack_rows"
      [] p = "unpack_rows" -> "add_table"
      [] p = "add_table" -> "to_csv"
      [] p = "to_csv" -> "format_header"
      [] p = "format_header" -> "format_bands"
      [] p = "format_bands" -> "persist"
      [] OTHER -> "idle"

\* The call raises err: the document in memory is dropped with the frame.
Fail(op, err) ==
    /\ pc' = "idle"
    /\ result' = Res(op, err)
    /\ prs' = NoPrs
    /\ exemplars' = <<>>
    /\ table_at' = 0
    /\ lines' = <<>>
    /\ rowi' = 0
    /\ UNCHANGED <<fs, saved>>

\* An assertion that lets every configuration through.
AssertIndexOff(sa) == TRUE

\* assert self._save_args.get("index", True)
AssertIndex(sa) == IF "index" \in DOMAIN sa THEN sa.index ELSE TRUE

\* self._save_args after _save: the pop of line 190 acts on the copy.
SaveArgsAfterSave(sa) == sa

\* The index option to_csv gets from save_args (pandas' default is True).
IndexOption(sa) == IF "index" \in DOMAIN sa THEN sa.index ELSE TRUE

\* A table without the header row.
NewTableShort(nrows, ncols) == [i \in 1..nrows |-> [j \in 1..(ncols + 1) |-> NewCell]]

\* slide.shapes.add_table(nrows + 1, ncols + 1, ...): the rows of the table.
NewTable(nrows, ncols) ==
    [i \in 1..(nrows + 1) |-> [j \in 1..(ncols + 1) |-> NewCell]]

\* old_element.addnext(new_element); parent.remove(old_element): the new
\* table stands where the old one stood.
SwapTable(shapes, at, new) ==
    [shapes |-> [k \in 1..Len(shapes) |-> IF k = at THEN new ELSE shapes[k]],
     at |-> at]

\* header_row.cells[1]
HeaderExemplar(ex) == ex[1][2]

\* Bands that start from the second band.
BandForSwapped(ex, i) == IF i % 2 = 0 THEN ex[3][1] ELSE ex[2][1]

\* zip(rows_and_lines, cycle(bands)): the band of the data row with 0-based
\* index i, bands being [first_data_row.cells[0], second_data_row.cells[0]].
BandFor(ex, i) == IF i % 2 = 0 THEN ex[2][1] ELSE ex[3][1]

\* The slide of the running save and its table's rows.
Slide == prs.slides[1]
TableRows == Slide.shapes[table_at].rows

WithShapes(shapes) ==
    [prs EXCEPT !.slides = <<[id |-> Slide.id, shapes |-> shapes]>>]

WithRow(k, row) ==
    WithShapes([Slide.shapes EXCEPT ![table_at] =
                   TableShape([TableRows EXCEPT ![k] = row])])

\* Line 186, entered from the caller.
SaveAssert ==
    /\ pc = "idle"
    /\ IF AssertIndex(save_args)
       THEN /\ pc' = Succ("assert")
            /\ result' = Res("save", "running")
            /\ UNCHANGED <<fs, saved, locals>>
       ELSE Fail("save", "AssertionError")
    /\ UNCHANGED <<config, env, tpl>>

\* Line 187.
SaveGetTemplate ==
    /\ pc = "get_template"
    /\ LET r == GetTemplate(template)
       IN IF r.err # "None" THEN Fail("save", r.err)
          ELSE /\ prs' = r.prs
               /\ pc' = Succ(pc)
               /\ UNCHANGED <<fs, saved, exemplars, table_at, lines, rowi, result>>
    /\ UNCHANGED <<config, env, tpl>>

\* Line 188: [slide] = prs.slides.
SaveUnpackSlide ==
    /\ pc = "unpack_slide"
    /\ IF \E k \in 1..Len(prs.slides) : prs.slides[k].id \notin prs.rels
       THEN Fail("save", "KeyError")
       ELSE IF Len(prs.slides) # 1 THEN Fail("save", "ValueError")
       ELSE /\ pc' = Succ(pc)
            /\ UNCHANGED <<fs, saved, locals, result>>
    /\ UNCHANGED <<config, env, tpl>>

\* Lines 189-192.
SaveTitle ==
    /\ pc = "title"
    /\ IF "title" \notin DOMAIN save_args THEN Fail("save", "KeyError")
       ELSE LET title == save_args.title
                at == {k \in 1..Len(Slide.shapes) : Slide.shapes[k].kind = "title"}
            IN IF title = "None"
               THEN pc' = Succ(pc) /\ UNCHANGED <<fs, saved, locals, result>>
               ELSE IF at = {} THEN Fail("save", "AttributeError")
               ELSE LET k == CHOOSE k \in at : \A m \in at : k <= m
                    IN /\ prs' = WithShapes([Slide.shapes EXCEPT ![k].text = <<title>>])
                       /\ pc' = Succ(pc)
                       /\ UNCHANGED <<fs, saved, exemplars, table_at, lines,
                                      rowi, result>>
    /\ save_args' = SaveArgsAfterSave(save_args)
    /\ UNCHANGED <<filepath, load_args, config0, env, tpl>>

\* Line 196.
SaveGetTable ==
    /\ pc = "get_table"
    /\ LET t == GetTable(Slide)
       IN IF t.err # "None" THEN Fail("save", t.err)
          ELSE /\ table_at' = t.at
               /\ pc' = Succ(pc)
               /\ UNCHANGED <<fs, saved, prs, exemplars, lines, rowi, result>>
    /\ UNCHANGED <<config, env, tpl>>

\* Lines 197-198.
SaveUnpackRows ==
    /\ pc = "unpack_rows"
    /\ IF Len(TableRows) < 3 THEN Fail("save", "ValueError")
       ELSE /\ exemplars' = SubSeq(TableRows, 1, 3)
            /\ pc' = Succ(pc)
            /\ UNCHANGED <<fs, saved, prs, table_at, lines, rowi, result>>
    /\ UNCHANGED <<config, env, tpl>>

\* Lines 199-210.
SaveAddTable ==
    /\ pc = "add_table"
    /\ LET new == TableShape(NewTable(Shape(data)[1], Shape(data)[2]))
           sw == SwapTable(Slide.shapes, table_at, new)
       IN /\ prs' = WithShapes(sw.shapes)
          /\ table_at' = sw.at
    /\ pc' = Succ(pc)
    /\ UNCHANGED <<fs, saved, exemplars, lines, rowi, result>>
    /\ UNCHANGED <<config, env, tpl>>

\* Lines 212-213.
SaveToCsv ==
    /\ pc = "to_csv"
    /\ lines' = SplitLines(ToCsv(data, IndexOption(save_args)))
    /\ pc' = Succ(pc)
    /\ UNCHANGED <<fs, saved, prs, exemplars, table_at, rowi, result>>
    /\ UNCHANGED <<config, env, tpl>>

\* zip(table.rows, lines): the number of pairs.
Pairs == Min(Len(TableRows), Len(lines))

\* Lines 215-218.
SaveFormatHeader ==
    /\ pc = "format_header"
    /\ IF Pairs < 1 THEN Fail("save", "StopIteration")
       ELSE IF Len(exemplars[1]) < 2 THEN Fail("save", "IndexError")
       ELSE LET r == FormatCells(TableRows[1], lines[1], HeaderExemplar(exemplars))
            IN IF r.err # "None" THEN Fail("save", r.err)
               ELSE /\ prs' = WithRow(1, r.row)
                    /\ rowi' = 1
                    /\ pc' = Succ(pc)
                    /\ UNCHANGED <<fs, saved, exemplars, table_at, lines, result>>
    /\ UNCHANGED <<config, env, tpl>>

\* Lines 220-222: one iteration of the loop, or its end.
SaveFormatBands ==
    /\ pc = "format_bands"
    /\ IF Len(exemplars[2]) < 1 \/ Len(exemplars[3]) < 1
       THEN Fail("save", "IndexError")
       ELSE IF rowi >= Pairs
       THEN pc' = Succ(pc) /\ UNCHANGED <<fs, saved, locals, result>>
       ELSE LET r == FormatCells(TableRows[rowi + 1], lines[rowi + 1],
                                 BandFor(exemplars, rowi - 1))
            IN IF r.err # "None" THEN Fail("save", r.err)
               ELSE /\ prs' = WithRow(rowi + 1, r.row)
                    /\ rowi' = rowi + 1
                    /\ UNCHANGED <<fs, saved, pc, exemplars, table_at, lines,
                                   result>>
    /\ UNCHANGED <<config, env, tpl>>

\* Line 224.
SavePersist ==
    /\ pc = "persist"
    /\ fs' = [exists |-> TRUE, doc |-> prs]
    /\ saved' = TRUE
    /\ pc' = Succ(pc)
    /\ result' = Res("save", "None")
    /\ prs' = NoPrs
    /\ exemplars' = <<>>
    /\ table_at' = 0
    /\ lines' = <<>>
    /\ rowi' = 0
    /\ UNCHANGED <<config, env, tpl>>

\* ---------------------------------------------------------------- _load
\* The pop of line 158 acting on self._load_args itself.
LoadArgsPopped(la) == Pop(la, "slide_name")

\* self._load_args after _load: the pop acts on the copy of line 157.
LoadArgsAfterLoad(la) == la

\* The cells of a row joined without a separator.
RowTextGlued(row) == Concat([j \in 1..Len(row) |-> CellText(row[j])])

\* ",".join(cell.text for cell in row.cells)
RowText(row) == Join([j \in 1..Len(row) |-> CellText(row[j])], <<COMMA>>)

\* The index_col that read_csv gets through **load_args.
IndexCol(la) == la.index_col

\* _load(), lines 156-165.
LoadResult(file, la) ==
    IF ~file.exists THEN Res("load", "PackageNotFoundError")
    ELSE IF "slide_name" \notin DOMAIN la THEN Res("load", "KeyError")
    ELSE
    LET slides == file.doc.slides
        k == la.slide_name + 1
        rest == Pop(la, "slide_name")
    IN
    IF k > Len(slides) THEN Res("load", "IndexError")
    ELSE
    LET t == GetTable(slides[k])
    IN
    IF t.err # "None" THEN Res("load", t.err)
    ELSE
    LET rows == slides[k].shapes[t.at].rows
        buffer == Concat([i \in 1..Len(rows) |-> RowText(rows[i]) \o <<LF>>])
        r == ReadCsv(buffer, IndexCol(rest))
    IN [op |-> "load", err |-> r.err, value |-> r.value,
        index_col |-> IndexCol(rest), config |-> NoConfig]

Load ==
    /\ pc = "idle"
    /\ result' = LoadResult(fs, load_args)
    /\ load_args' = LoadArgsAfterLoad(load_args)
    /\ UNCHANGED <<filepath, save_args, config0, env, fs, saved, pc, locals, tpl>>

DescribeCall ==
    /\ pc = "idle"
    /\ result' = [Res("describe", "None") EXCEPT
                    !.config = Describe(filepath, load_args, save_args)]
    /\ UNCHANGED <<config, env, fs, saved, pc, locals, tpl>>

Next ==
    \/ SaveAssert
    \/ SaveGetTemplate
    \/ SaveUnpackSlide
    \/ SaveTitle
    \/ SaveGetTable
    \/ SaveUnpackRows
    \/ SaveAddTable
    \/ SaveToCsv
    \/ SaveFormatHeader
    \/ SaveFormatBands
    \/ SavePersist
    \/ Load
    \/ DescribeCall

Spec == Init /\ [][Next]_vars

\* -------------------------------------------- _get_template, step by step
MinSlides == KeepIdx - 1

InitTemplate ==
    /\ filepath = Target
    /\ load_args = default_load_args
    /\ save_args = default_save_args
    /\ config0 = Describe(filepath, load_args, save_args)
    /\ \E n \in MinSlides..MaxSlides :
          template = [nslides |-> n, shapes |-> GoodTemplate.shapes]
    /\ data = MkData(0, 1, <<>>)
    /\ fs = Absent
    /\ saved = FALSE
    /\ pc = "tpl_open"
    /\ prs = NoPrs
    /\ exemplars = <<>>
    /\ table_at = 0
    /\ lines = <<>>
    /\ rowi = 0
    /\ result = Res("none", "None")
    /\ slide_id_list = <<>>
    /\ deleted = <<>>

TplFrame == <<config, env, fs, saved, exemplars, table_at, lines, rowi, result>>

\* Lines 169-171.
TplOpen ==
    /\ pc = "tpl_open"
    /\ prs' = OpenTemplate(template)
    /\ pc' = "tpl_enumerate"
    /\ UNCHANGED <<TplFrame, tpl>>

\* Lines 175-177.
TplEnumerate ==
    /\ pc = "tpl_enumerate"
    /\ slide_id_list' = Enumerate(prs)
    /\ pc' = "tpl_del"
    /\ UNCHANGED <<TplFrame, prs, deleted>>

\* Line 178, and the iterator of line 179.
TplDelKept ==
    /\ pc = "tpl_del"
    /\ LET d == DelKept(slide_id_list)
       IN IF d.err # "None"
          THEN pc' = "tpl_raised" /\ UNCHANGED slide_id_list
          ELSE pc' = "tpl_loop" /\ slide_id_list' = IterOrder(d.list)
    /\ UNCHANGED <<TplFrame, prs, deleted>>

\* Lines 179-181: one iteration, or the end of the loop and line 183.
TplLoop ==
    /\ pc = "tpl_loop"
    /\ IF slide_id_list = <<>>
       THEN pc' = "tpl_return" /\ UNCHANGED <<prs, tpl>>
       ELSE LET e == Head(slide_id_list)
                r == PruneStep(prs, e)
            IN IF r.err # "None"
               THEN pc' = "tpl_raised" /\ UNCHANGED <<prs, tpl>>
               ELSE /\ prs' = r.prs
                    /\ deleted' = Append(deleted, [i |-> e.i, slide_id |-> e.slide_id,
                                                   gone |-> r.gone])
                    /\ slide_id_list' = Tail(slide_id_list)
                    /\ UNCHANGED pc
    /\ UNCHANGED TplFrame

NextTemplate == TplOpen \/ TplEnumerate \/ TplDelKept \/ TplLoop

SpecTemplate == InitTemplate /\ [][NextTemplate]_vars

\* =============================================================== claims
Contains(t, c) == \E k \in 1..Len(t) : t[k] = c

HasValueWith(d, c) ==
    \E i \in 1..Len(d.values) : \E j \in 1..Len(d.values[i]) :
        Contains(d.values[i][j], c)

\* A load has returned or raised after a save wrote the target.
LoadedAfterSave == pc = "idle" /\ saved /\ result.op = "load"

\* The rows of the table the locator finds on the first slide of the target.
SavedRows ==
    LET s == fs.doc.slides[1]
    IN s.shapes[GetTable(s).at].rows

TableCount(shapes) == Cardinality({k \in 1..Len(shapes) : HasTable(shapes[k])})

NoTable(shapes) == \A k \in 1..Len(shapes) : ~HasTable(shapes[k])

IndexDisabled == "index" \in DOMAIN save_args /\ ~save_args.index

\* The slide of the template that holds the content.
TemplateSlide == [id |-> KeepIdx, shapes |-> template.shapes]

HeaderUsable ==
    /\ template.nslides > KeepIdx
    /\ ~NoTable(template.shapes)
    /\ LET rows == template.shapes[GetTable(TemplateSlide).at].rows
       IN Len(rows) >= 3 /\ Len(rows[1]) >= 2 /\ rows[1][2].runs # <<>>
    /\ (save_args.title = "None"
        \/ \E k \in 1..Len(template.shapes) : template.shapes[k].kind = "title")

\* C2: after a successful save of r rows and c columns the table on the saved
\* slide, standing where the exemplar stood, has r + 1 rows of c + 1 cells and
\* the slide has as many tables as the template's slide had; a save of zero
\* rows succeeds whatever the band exemplars are, on a template whose header
\* exemplar and title are usable.
C2_TableShape ==
    /\ saved =>
         /\ Len(fs.doc.slides) = 1
         /\ GetTable(fs.doc.slides[1]).err = "None"
         /\ Len(SavedRows) = Len(data.index) + 1
         /\ \A i \in 1..Len(SavedRows) : Len(SavedRows[i]) = Len(data.cols) + 1
         /\ TableCount(fs.doc.slides[1].shapes) = TableCount(template.shapes)
         /\ GetTable(fs.doc.slides[1]).at = GetTable(TemplateSlide).at
    /\ (pc = "idle" /\ result.op = "save" /\ Len(data.index) = 0
          /\ ~IndexDisabled /\ HeaderUsable)
         => result.err = "None"

C2_Witness ==
    /\ saved /\ pc = "idle" /\ result.op = "save" /\ result.err = "None"
    /\ Len(data.index) = 0
    /\ Len(SavedRows) = 1
    /\ \E k \in 1..Len(template.shapes) :
          /\ HasTable(template.shapes[k])
          /\ template.shapes[k].rows[3][1].runs = <<>>

\* C3: when save_args has index = False, save raises the AssertionError
\* before the template is opened: no call gets past line 186, no document is
\* in memory and the target is never written.
C3_DisabledIndexFatal ==
    IndexDisabled =>
        /\ pc = "idle"
        /\ prs = NoPrs
        /\ ~saved
        /\ fs \in {Absent, Existing}
        /\ result.op = "save" => result.err = "AssertionError"

C3_Witness ==
    IndexDisabled /\ result.op = "save" /\ result.err = "AssertionError"

\* The first shape with a table, found without scanning.
Located(slide) ==
    IF NoTable(slide.shapes) THEN [err |-> "DataSetError", at |-> 0]
    ELSE [err |-> "None",
          at |-> CHOOSE k \in 1..Len(slide.shapes) :
                    /\ HasTable(slide.shapes[k])
                    /\ \A m \in 1..(k - 1) : ~HasTable(slide.shapes[m])]

SlidesInPlay ==
    {fs.doc.slides[k] : k \in 1..Len(fs.doc.slides)}
        \cup {prs.slides[k] : k \in 1..Len(prs.slides)}
        \cup {TemplateSlide}

\* C4: on every slide the locator gives the first shape, in the slide's
\* order, that has a table, and the DataSetError exactly when no shape has
\* one; a load of a slide without a table and a save whose template slide has
\* none raise it.
C4_TableLocator ==
    /\ \A s \in SlidesInPlay : GetTable(s) = Located(s)
    /\ (pc = "idle" /\ result.op = "load" /\ fs.exists
          /\ load_args.slide_name < Len(fs.doc.slides))
         => (result.err = "DataSetError"
               <=> NoTable(fs.doc.slides[load_args.slide_name + 1].shapes))
    /\ (pc = "idle" /\ result.op = "save"
          /\ result.err \notin {"AssertionError", "AttributeError"}
          /\ template.nslides > KeepIdx)
         => (result.err = "DataSetError" <=> NoTable(template.shapes))
    /\ pc \in {"unpack_rows", "add_table"} => table_at = Located(Slide).at

C4_Witness ==
    /\ pc = "idle" /\ result.op = "save" /\ result.err = "DataSetError"
    /\ template.shapes # <<>> /\ NoTable(template.shapes)
    /\ fs.exists /\ fs.doc.slides[1].shapes # <<>>
    /\ NoTable(fs.doc.slides[1].shapes)

\* C5: for a template of more than 40 slides the loader finishes with exactly
\* one slide, the one that was at position 40; the other slides were deleted
\* in descending index order, each index naming, when used, the slide it was
\* enumerated with, and the relationships dropped are those of the deleted
\* slides and of no other.
C5_TemplatePruning ==
    /\ \A k \in 1..Len(deleted) :
          /\ deleted[k].gone = deleted[k].slide_id
          /\ deleted[k].slide_id = deleted[k].i
          /\ deleted[k].i # KeepIdx
          /\ k > 1 => deleted[k].i < deleted[k - 1].i
    /\ pc \in {"tpl_loop", "tpl_return"} =>
          prs.rels = (0..(template.nslides - 1))
                        \ {deleted[k].slide_id : k \in 1..Len(deleted)}
    /\ template.nslides > KeepIdx => pc # "tpl_raised"
    /\ pc = "tpl_return" =>
          /\ Len(prs.slides) = 1
          /\ prs.slides[1].id = KeepIdx
          /\ prs.rels = {KeepIdx}
          /\ {deleted[k].gone : k \in 1..Len(deleted)}
                = (0..(template.nslides - 1)) \ {KeepIdx}
          /\ Len(deleted) = template.nslides - 1

C5_Witness ==
    /\ pc = "tpl_return"
    /\ template.nslides > KeepIdx + 2
    /\ Len(deleted) > KeepIdx
    /\ prs.slides[1].id = KeepIdx

\* The rows of the template's table, and the exemplar the claim gives to the
\* k-th row of the new table.
TemplateRows == template.shapes[Located(TemplateSlide).at].rows

ExemplarOf(k) ==
    IF k = 1 THEN TemplateRows[1][2] ELSE TemplateRows[2 + ((k - 2) % 2)][1]

CellLike(cell, e) ==
    /\ Len(cell.runs) = 1
    /\ cell.runs[1].font = e.runs[1].font
    /\ cell.margins = e.margins
    /\ e.fill \in {"background", "solid"} => cell.fill = e.fill
    /\ e.fill = "solid" => cell.rgb = e.rgb

RowLike(row, e) ==
    /\ CellLike(row[1], e)
    /\ \A j \in 1..Len(row) : row[j] = NewCell \/ CellLike(row[j], e)

RowUntouched(row) == \A j \in 1..Len(row) : row[j] = NewCell

C7_NoPartialOutput ==
    [][/\ fs' # fs =>
            /\ pc = "persist" /\ pc' = "idle"
            /\ result'.op = "save" /\ result'.err = "None"
            /\ Len(prs.slides) = 1 /\ prs.slides[1].id = KeepIdx
            /\ save_args.title # "None" =>
                  \E k \in 1..Len(Slide.shapes) :
                      /\ Slide.shapes[k].kind = "title"
                      /\ Slide.shapes[k].text = <<save_args.title>>
            /\ Len(TableRows) = Len(data.index) + 1
            /\ rowi >= 1 /\ rowi = Pairs
            /\ \A k \in 1..rowi : ~RowUntouched(TableRows[k])
            /\ fs'.doc = prs
       /\ (result'.op = "save" /\ result'.err \notin {"None", "running"}
             /\ result' # result)
            => (fs' = fs /\ saved' = saved /\ pc' = "idle")]_vars

C7_Witness ==
    /\ pc = "idle" /\ result.op = "save" /\ result.err = "IndexError"
    /\ template.nslides > KeepIdx
    /\ Len(data.index) >= 2
    /\ fs = Absent /\ ~saved

\* C8: for every load_args mapping given at construction, load parses the
\* buffer with the index-column option equal to column 0.
C8_IndexColForced ==
    (result.op = "load" /\ result.err \in {"None", "ParserError"})
        => result.index_col = 0

\* C9 as stated: a dataset with a comma in some value is saved without error,
\* the following load returns, and what it returns differs from the dataset.
C9_Original ==
    (LoadedAfterSave /\ DefaultOptions /\ HasValueWith(data, COMMA))
        => (result.err = "None" /\ result.value # data)

\* The values the cell formatter dropped: the pieces of each paired line
\* beyond the row's cells.
Dropped(d) ==
    LET ls == SplitLines(ToCsv(d, TRUE))
        n == Min(Len(ls), Len(d.index) + 1)
        pieces(k) == Split(ls[k], COMMA)
    IN UNION {{pieces(k)[m] : m \in (Len(d.cols) + 2)..Len(pieces(k))} :
                k \in 1..n}

\* C9 amended: a dataset with a comma in some value is saved without error,
\* the values beyond each row's cells being dropped; the following load
\* either raises the parser's error or returns a dataset, and the dataset it
\* returns differs from the saved one unless every dropped value was empty.
C9_CommaLimitation ==
    /\ (pc = "idle" /\ result.op = "save" /\ DefaultOptions
          /\ template = GoodTemplate /\ HasValueWith(data, COMMA))
         => result.err = "None"
    /\ (LoadedAfterSave /\ DefaultOptions /\ HasValueWith(data, COMMA))
         => /\ result.err \in {"None", "ParserError"}
            /\ (result.err = "None" /\ result.value = data)
                  => Dropped(data) \subseteq {NaN}

C9_Witness ==
    /\ LoadedAfterSave /\ DefaultOptions
    /\ HasValueWith(data, COMMA)
    /\ Dropped(data) # {}
    /\ result.err = "None" /\ result.value # data
    /\ Shape(result.value) = Shape(data)

\* C10: no call changes the configuration: the target location and the
\* resolved options are those of construction, the slide index and the title
\* key are still there, describe returns what it returned at construction and
\* no call fails for a missing option.
C10_ConfigFrame ==
    /\ Describe(filepath, load_args, save_args) = config0
    /\ "slide_name" \in DOMAIN load_args
    /\ "title" \in DOMAIN save_args
    /\ result.err # "KeyError"
    /\ result.op = "describe" => result.config = config0

C10_Witness ==
    /\ pc = "idle" /\ saved /\ fs.exists
    /\ result.op = "describe" /\ result.config = config0
    /\ load_args.slide_name = 0
    /\ save_args.title # "None"
====
